---- MODULE Spec2Model ----
(***************************************************************************)
(* Model of the agenda_lgo client: the library (agenda_lgo.go), its driver *)
(* (cmd/main.go) and the older single-file program (main.go).  The remote  *)
(* service, the credentials file and the output directory are the          *)
(* environment: every reply and every I/O outcome is an input drawn from a  *)
(* small set.                                                               *)
(***************************************************************************)
EXTENDS Integers, Sequences, FiniteSets, TLC

VARIABLES build, pc, exitCode, sessionToken, requests, results, loginTrace,
          listTrace, documentList, idx, saves, files, openHandles

vars == <<build, pc, exitCode, sessionToken, requests, results, loginTrace,
          listTrace, documentList, idx, saves, files, openHandles>>

----------------------------------------------------------------------------
(* Bounds *)

MaxDocs == 2        \* longest document list an account carries
MaxBody == 2        \* longest download body, in bytes
MaxAccounts == 2    \* longest account envelope

----------------------------------------------------------------------------
(* Values *)

baseURL == "https://agenda-lgo.de/api"

NoError == "<nil>"

StatusOK == 200

\* The flag defaults of the drivers.
authFilePath == ".auth"

outDir == "out"

\* resp.Status of the replies the environment serves.
StatusLine(code) ==
    CASE code = 200 -> "200 OK"
      [] code = 403 -> "403 Forbidden"
      [] code = 404 -> "404 Not Found"
      [] OTHER      -> ToString(code) \o " "

\* time.Month(m).String()
MonthString(m) ==
    IF m \in 1..12
    THEN <<"January", "February", "March", "April", "May", "June", "July",
           "August", "September", "October", "November", "December">>[m]
    ELSE "%!Month(" \o ToString(m) \o ")"

\* Variant: the session token is left out of the URL.
generateURL_NoToken(token, method) == baseURL \o method

generateURL(token, method) == baseURL \o method \o token

setHeaders ==
    [Origin      |-> "https://agenda-lgo.de",
     UserAgent   |-> "LGO-Downloader 0.1",
     ContentType |-> "application/x-www-form-urlencoded; charset=UTF-8"]

\* http.NewRequest followed by lgo.setHeaders
NewRequest(method, url, body) ==
    [method |-> method, url |-> url, body |-> body, header |-> setHeaders]

\* fmt.Sprintf("%s/%d-%s.pdf", outDir, Year, time.Month(Month))
FileName(dir, document) ==
    dir \o "/" \o ToString(document.Year) \o "-" \o MonthString(document.Month) \o ".pdf"

\* json.Decoder.Decode into URPResponse: a well-formed object without the
\* "urp" key leaves the field at its zero value and is no error.
DecodeURP(body) ==
    IF ~body.wellFormed
    THEN [err |-> "invalid character", URP |-> ""]
    ELSE [err |-> NoError, URP |-> IF body.hasURP THEN body.urp ELSE ""]

\* json.Decoder.Decode into Authentication
DecodeAuthentication(file) ==
    IF ~file.wellFormed
    THEN [err |-> "invalid character", Email |-> "", Password |-> ""]
    ELSE [err |-> NoError, Email |-> file.Email, Password |-> file.Password]

\* json.Decoder.Decode into DocumentResponse
DecodeDocumentResponse(body) ==
    IF ~body.wellFormed
    THEN [err |-> "invalid character", value |-> <<>>]
    ELSE [err |-> NoError, value |-> body.accounts]

----------------------------------------------------------------------------
(* File system and handles *)

\* Variant: the file is opened without O_TRUNC, so old bytes survive.
Create_NoTruncate(fs, path) ==
    [p \in (DOMAIN fs) \cup {path} |-> IF p \in DOMAIN fs THEN fs[p] ELSE <<>>]

\* os.Create: the file exists afterwards and is empty (O_CREATE|O_TRUNC).
Create(fs, path) ==
    [p \in (DOMAIN fs) \cup {path} |-> IF p = path THEN <<>> ELSE fs[p]]

\* Writes through the handle os.Create returned: appended at the offset,
\* which starts at 0 in the truncated file.
Write(fs, path, bytes) == [fs EXCEPT ![path] = @ \o bytes]

\* Variant: a copy through a one-byte buffer that is never refilled.
Copy_OneBuffer(body, copied) ==
    [bytes |-> SubSeq(body, 1, IF copied > 1 THEN 1 ELSE copied),
     err   |-> IF copied = Len(body) THEN NoError ELSE "unexpected EOF"]

\* io.Copy(out, resp.Body): stops at the first read or write error; the
\* bytes copied before it stay in the file.
Copy(body, copied) ==
    [bytes |-> SubSeq(body, 1, copied),
     err   |-> IF copied = Len(body) THEN NoError ELSE "unexpected EOF"]

FileHandle(path) == "file:" \o path

BodyHandle(req) == "body:" \o req.method \o " " \o req.url

----------------------------------------------------------------------------
(* The operations of LGO, as functions of the receiver's state and of what  *)
(* the environment answers.  Each result carries the requests issued, the   *)
(* handles acquired and the handles its deferred calls released.            *)

generateAuthentication(path, file) ==
    IF ~file.exists
    THEN [err |-> "open " \o path \o ": no such file or directory",
          reader |-> "", acquired |-> {}, released |-> {}]
    ELSE LET auth == DecodeAuthentication(file) IN
         IF auth.err # NoError
         THEN [err |-> auth.err, reader |-> "",
               acquired |-> {FileHandle(path)}, released |-> {}]
         ELSE [err |-> NoError,
               reader |-> "eml=" \o auth.Email \o "&pwd=" \o auth.Password,
               acquired |-> {FileHandle(path)}, released |-> {}]

LoginRun(token, file, post, get) ==
    LET auth == generateAuthentication(authFilePath, file)
        req1 == NewRequest("POST", generateURL(token, "/auth"), auth.reader)
        urp  == DecodeURP(post.body)
        req2 == NewRequest("GET", generateURL(urp.URP, "/auth"), "")
        none == [wellFormed |-> FALSE, hasURP |-> FALSE, urp |-> ""]
    IN
    IF auth.err # NoError
    THEN [err |-> auth.err, token |-> token, reqs |-> <<>>,
          acquired |-> auth.acquired, released |-> auth.released,
          postReplied |-> FALSE, postBody |-> none,
          getIssued |-> FALSE, getStatus |-> 0]
    ELSE IF post.transportErr
    THEN [err |-> "Post: connection refused", token |-> token, reqs |-> <<req1>>,
          acquired |-> auth.acquired, released |-> auth.released,
          postReplied |-> FALSE, postBody |-> none,
          getIssued |-> FALSE, getStatus |-> 0]
    ELSE IF urp.err # NoError
    THEN [err |-> urp.err, token |-> token, reqs |-> <<req1>>,
          acquired |-> auth.acquired \cup {BodyHandle(req1)},
          released |-> auth.released \cup {BodyHandle(req1)},
          postReplied |-> TRUE, postBody |-> post.body,
          getIssued |-> FALSE, getStatus |-> 0]
    ELSE IF get.transportErr
    THEN [err |-> "Get: connection refused", token |-> urp.URP,
          reqs |-> <<req1, req2>>,
          acquired |-> auth.acquired \cup {BodyHandle(req1)},
          released |-> auth.released \cup {BodyHandle(req1)},
          postReplied |-> TRUE, postBody |-> post.body,
          getIssued |-> TRUE, getStatus |-> 0]
    ELSE [err |-> IF get.status # StatusOK THEN StatusLine(get.status) ELSE NoError,
          token |-> urp.URP, reqs |-> <<req1, req2>>,
          acquired |-> auth.acquired \cup {BodyHandle(req1), BodyHandle(req2)},
          released |-> auth.released \cup {BodyHandle(req1), BodyHandle(req2)},
          postReplied |-> TRUE, postBody |-> post.body,
          getIssued |-> TRUE, getStatus |-> get.status]

FetchDocumentListRun(token, reply) ==
    LET req == NewRequest("GET", generateURL(token, "/me/e"), "")
        dec == DecodeDocumentResponse(reply.body)
    IN
    IF reply.transportErr
    THEN [panic |-> FALSE, err |-> "Get: connection refused", docs |-> <<>>,
          reqs |-> <<req>>, acquired |-> {}, released |-> {}]
    ELSE IF dec.err # NoError
    THEN [panic |-> FALSE, err |-> dec.err, docs |-> <<>>, reqs |-> <<req>>,
          acquired |-> {BodyHandle(req)}, released |-> {BodyHandle(req)}]
    ELSE IF Len(dec.value) = 0
    THEN \* documentResponse[0]: index out of range, a run-time panic
         [panic |-> TRUE, err |-> "index out of range [0] with length 0",
          docs |-> <<>>, reqs |-> <<req>>,
          acquired |-> {BodyHandle(req)}, released |-> {BodyHandle(req)}]
    ELSE [panic |-> FALSE, err |-> NoError, docs |-> dec.value[1].DocumentList,
          reqs |-> <<req>>,
          acquired |-> {BodyHandle(req)}, released |-> {BodyHandle(req)}]

\* Variant: a reply that is not 200 OK is turned into an error before the
\* file is touched.
SaveDocumentRun_CheckStatus(token, dir, fs, document, reply, createOK, copied) ==
    LET req  == NewRequest("GET",
                    generateURL(token, document.DownloadPath \o "/" \o document.Name), "")
        path == FileName(dir, document)
        cp   == Copy(reply.body, copied)
    IN
    IF reply.transportErr
    THEN [err |-> "Get: connection refused", reqs |-> <<req>>, fs |-> fs,
          path |-> path, responded |-> FALSE, created |-> FALSE,
          acquired |-> {}, released |-> {}]
    ELSE IF reply.status # StatusOK
    THEN [err |-> StatusLine(reply.status), reqs |-> <<req>>, fs |-> fs,
          path |-> path, responded |-> TRUE, created |-> FALSE,
          acquired |-> {BodyHandle(req)}, released |-> {BodyHandle(req)}]
    ELSE IF ~createOK
    THEN [err |-> "open " \o path \o ": permission denied", reqs |-> <<req>>,
          fs |-> fs, path |-> path, responded |-> TRUE, created |-> FALSE,
          acquired |-> {BodyHandle(req)}, released |-> {BodyHandle(req)}]
    ELSE [err |-> cp.err, reqs |-> <<req>>,
          fs |-> Write(Create(fs, path), path, cp.bytes),
          path |-> path, responded |-> TRUE, created |-> TRUE,
          acquired |-> {BodyHandle(req), FileHandle(path)},
          released |-> {BodyHandle(req), FileHandle(path)}]

SaveDocumentRun(token, dir, fs, document, reply, createOK, copied) ==
    LET req  == NewRequest("GET",
                    generateURL(token, document.DownloadPath \o "/" \o document.Name), "")
        path == FileName(dir, document)
        cp   == Copy(reply.body, copied)
    IN
    IF reply.transportErr
    THEN [err |-> "Get: connection refused", reqs |-> <<req>>, fs |-> fs,
          path |-> path, responded |-> FALSE, created |-> FALSE,
          acquired |-> {}, released |-> {}]
    ELSE IF ~createOK
    THEN [err |-> "open " \o path \o ": permission denied", reqs |-> <<req>>,
          fs |-> fs, path |-> path, responded |-> TRUE, created |-> FALSE,
          acquired |-> {BodyHandle(req)}, released |-> {BodyHandle(req)}]
    ELSE [err |-> cp.err, reqs |-> <<req>>,
          fs |-> Write(Create(fs, path), path, cp.bytes),
          path |-> path, responded |-> TRUE, created |-> TRUE,
          acquired |-> {BodyHandle(req), FileHandle(path)},
          released |-> {BodyHandle(req), FileHandle(path)}]

----------------------------------------------------------------------------
(* The environment: credentials files, replies, documents *)

Tokens == {"TOK"}

AuthFiles ==
    {[exists |-> FALSE, wellFormed |-> FALSE, Email |-> "", Password |-> ""],
     [exists |-> TRUE, wellFormed |-> FALSE, Email |-> "", Password |-> ""],
     [exists |-> TRUE, wellFormed |-> TRUE, Email |-> "me@example.org", Password |-> "secret"]}

URPBodies ==
    {[wellFormed |-> FALSE, hasURP |-> FALSE, urp |-> ""],     \* not JSON
     [wellFormed |-> TRUE, hasURP |-> FALSE, urp |-> ""]}      \* {}
    \cup {[wellFormed |-> TRUE, hasURP |-> TRUE, urp |-> t] : t \in Tokens}

PostReplies ==
    {[transportErr |-> TRUE, status |-> 0, body |-> [wellFormed |-> FALSE, hasURP |-> FALSE, urp |-> ""]]}
    \cup {[transportErr |-> FALSE, status |-> c, body |-> b] : c \in {200, 403}, b \in URPBodies}

GetReplies ==
    {[transportErr |-> TRUE, status |-> 0]}
    \cup {[transportErr |-> FALSE, status |-> c] : c \in {200, 403, 500}}

Doc(year, month, name, downloadPath, type) ==
    [Year |-> year, Month |-> month, Name |-> name,
     DownloadPath |-> downloadPath, Type |-> type]

\* The first document of a listing ranges over every month value, in and
\* out of 1..12; the later ones repeat January 2023 under another name and
\* type, or are a document of another month.
FirstDocs == {Doc(2023, m, "f.pdf", "/d", "salary") : m \in 0..13}

OtherDocs == {Doc(2023, 1, "g.pdf", "/d", "tax"),
              Doc(2023, 3, "march.pdf", "/docs", "salary")}

RECURSIVE Listings(_)
Listings(n) ==
    IF n = 0 THEN {<<>>}
    ELSE IF n = 1 THEN {<<>>} \cup {<<d>> : d \in FirstDocs}
    ELSE Listings(n - 1)
         \cup {Append(l, d) : l \in {k \in Listings(n - 1) : Len(k) = n - 1},
                              d \in OtherDocs}

Account(docs) == [ID |-> "1", Employee |-> "E", Employer |-> "R", DocumentList |-> docs]

\* Account envelopes: empty, or a first account with any listing followed
\* by accounts the client never looks at.
Envelopes ==
    {<<>>} \cup
    {[i \in 1..n |-> IF i = 1 THEN Account(l) ELSE Account(<<>>)] :
        n \in 1..MaxAccounts, l \in Listings(MaxDocs)}

ListReplies ==
    {[transportErr |-> TRUE, status |-> 0, body |-> [wellFormed |-> FALSE, accounts |-> <<>>]],
     [transportErr |-> FALSE, status |-> 200, body |-> [wellFormed |-> FALSE, accounts |-> <<>>]]}
    \cup {[transportErr |-> FALSE, status |-> 200, body |-> [wellFormed |-> TRUE, accounts |-> e]] :
            e \in Envelopes}

\* Download bodies: the prefixes of a byte string, the empty one included.
Payload == [i \in 1..MaxBody |-> 36 + i]

Bodies == {SubSeq(Payload, 1, n) : n \in 0..MaxBody}

DownloadReplies ==
    {[transportErr |-> TRUE, status |-> 0, body |-> <<>>]}
    \cup {[transportErr |-> FALSE, status |-> 200, body |-> b] : b \in Bodies}
    \cup {[transportErr |-> FALSE, status |-> c, body |-> <<52>>] : c \in {404}}

\* The output directory exists and already holds one older, longer file.
StaleBytes == [i \in 1..(MaxBody + 1) |-> 9]

InitialFiles == [p \in {FileName(outDir, Doc(2023, 1, "", "", ""))} |-> StaleBytes]

----------------------------------------------------------------------------
(* The drivers *)

\* Variant: the driver drops the error of Login as it drops the others.
MainAfterLogin_Ignore(err) == [pc |-> "list", exitCode |-> 0]

\* if err != nil { log.Fatal(err) } after Login
MainAfterLogin(err) ==
    IF err # NoError THEN [pc |-> "exited", exitCode |-> 1]
                     ELSE [pc |-> "list", exitCode |-> 0]

\* documentList, err := lgo.FetchDocumentList(): err is never read; a panic
\* unwinds main and the runtime exits with status 2.
MainAfterFetch(r) ==
    IF r.panic THEN [pc |-> "exited", exitCode |-> 2, documentList |-> <<>>]
               ELSE [pc |-> "save", exitCode |-> 0, documentList |-> r.docs]

\* cmd/main.go: lgo.SaveDocument(doc) as a statement, its error dropped.
MainAfterSave(err) == [pc |-> "save", exitCode |-> 0]

\* main.go: SaveDocument itself calls log.Fatal on every error.  log.Fatal
\* ends the process through os.Exit, which closes whatever is still open.
SaveDocumentFatal(err) ==
    IF err # NoError THEN [pc |-> "exited", exitCode |-> 1]
                     ELSE [pc |-> "save", exitCode |-> 0]

NoLogin ==
    [called |-> FALSE, err |-> NoError, postReplied |-> FALSE,
     postBody |-> [wellFormed |-> FALSE, hasURP |-> FALSE, urp |-> ""],
     getIssued |-> FALSE, getStatus |-> 0, tokenBefore |-> ""]

NoList ==
    [called |-> FALSE, err |-> NoError, panic |-> FALSE, decoded |-> FALSE,
     accounts |-> 0]

Init ==
    /\ build \in {"cmd", "main"}
    /\ pc = "login"
    /\ exitCode = 0
    /\ sessionToken = ""
    /\ requests = <<>>
    /\ results = <<>>
    /\ loginTrace = NoLogin
    /\ listTrace = NoList
    /\ documentList = <<>>
    /\ idx = 1
    /\ saves = <<>>
    /\ files = InitialFiles
    /\ openHandles = {}

Login ==
    /\ pc = "login"
    /\ \E file \in AuthFiles, post \in PostReplies, get \in GetReplies :
         LET r == LoginRun(sessionToken, file, post, get)
             m == MainAfterLogin(r.err)
         IN
         /\ sessionToken' = r.token
         /\ requests' = requests \o r.reqs
         /\ results' = Append(results, [op |-> "Login", err |-> r.err])
         /\ loginTrace' = [called |-> TRUE, err |-> r.err,
                           postReplied |-> r.postReplied, postBody |-> r.postBody,
                           getIssued |-> r.getIssued, getStatus |-> r.getStatus,
                           tokenBefore |-> sessionToken]
         /\ openHandles' = openHandles \cup (r.acquired \ r.released)
         /\ pc' = m.pc
         /\ exitCode' = m.exitCode
    /\ UNCHANGED <<build, listTrace, documentList, idx, saves, files>>

FetchDocumentList ==
    /\ pc = "list"
    /\ \E reply \in ListReplies :
         LET r == FetchDocumentListRun(sessionToken, reply)
             m == MainAfterFetch(r)
         IN
         /\ requests' = requests \o r.reqs
         /\ results' = Append(results, [op |-> "FetchDocumentList", err |-> r.err])
         /\ listTrace' = [called |-> TRUE, err |-> r.err, panic |-> r.panic,
                          decoded |-> (~reply.transportErr /\ reply.body.wellFormed),
                          accounts |-> IF ~reply.transportErr /\ reply.body.wellFormed
                                       THEN Len(reply.body.accounts) ELSE 0]
         /\ openHandles' = openHandles \cup (r.acquired \ r.released)
         /\ documentList' = m.documentList
         /\ idx' = 1
         /\ pc' = m.pc
         /\ exitCode' = m.exitCode
    /\ UNCHANGED <<build, sessionToken, loginTrace, saves, files>>

\* One iteration of "for _, doc := range documentList".
SaveStep(program) ==
    /\ pc = "save"
    /\ idx <= Len(documentList)
    /\ \E reply \in DownloadReplies, createOK \in BOOLEAN :
       \E copied \in IF reply.transportErr \/ ~createOK THEN {0} ELSE 0..Len(reply.body) :
         LET r == SaveDocumentRun(sessionToken, outDir, files, documentList[idx],
                                  reply, createOK, copied)
             m == IF program = "cmd" THEN MainAfterSave(r.err) ELSE SaveDocumentFatal(r.err)
         IN
         /\ requests' = requests \o r.reqs
         /\ results' = Append(results, [op |-> "SaveDocument", err |-> r.err])
         /\ saves' = Append(saves, [document |-> documentList[idx], index |-> idx,
                                    transportErr |-> reply.transportErr,
                                    status |-> reply.status, body |-> reply.body,
                                    createOK |-> createOK, copied |-> copied,
                                    responded |-> r.responded, created |-> r.created,
                                    path |-> r.path, err |-> r.err])
         /\ files' = r.fs
         /\ openHandles' = openHandles \cup (r.acquired \ r.released)
         /\ idx' = idx + 1
         /\ pc' = m.pc
         /\ exitCode' = m.exitCode
    /\ UNCHANGED <<build, sessionToken, loginTrace, listTrace, documentList>>

\* agenda_lgo.go SaveDocument called from cmd/main.go
SaveDocument == build = "cmd" /\ SaveStep("cmd")

\* main.go SaveDocument called from its own main
SaveDocumentMain == build = "main" /\ SaveStep("main")

\* The range loop is exhausted and main returns.
MainReturn ==
    /\ pc = "save"
    /\ idx > Len(documentList)
    /\ pc' = "exited"
    /\ exitCode' = 0
    /\ UNCHANGED <<build, sessionToken, requests, results, loginTrace, listTrace,
                   documentList, idx, saves, files, openHandles>>

Next == Login \/ FetchDocumentList \/ SaveDocument \/ SaveDocumentMain \/ MainReturn

Spec == Init /\ [][Next]_vars

TypeOK ==
    /\ build \in {"cmd", "main"}
    /\ pc \in {"login", "list", "save", "exited"}
    /\ exitCode \in 0..2
    /\ idx \in 1..(MaxDocs + 1)
    /\ Len(documentList) <= MaxDocs
    /\ Len(saves) <= Len(documentList)

----------------------------------------------------------------------------
(* Properties *)

LoginReturned == loginTrace.called

\* C1: when the confirming GET /auth answers with a status other than 200,
\* Login returns the status text as its error and the session token is the
\* value it had before Login was called.
C1_RejectedConfirmLeavesNoSession ==
    (LoginReturned /\ loginTrace.getIssued /\ loginTrace.getStatus \notin {0, StatusOK})
        => /\ loginTrace.err = StatusLine(loginTrace.getStatus)
           /\ sessionToken = loginTrace.tokenBefore

\* C2: a listing that decodes to an empty account sequence makes
\* FetchDocumentList return an error; it does not panic and returns no list.
C2_EmptyEnvelopeIsAnError ==
    (listTrace.called /\ listTrace.decoded /\ listTrace.accounts = 0)
        => /\ ~listTrace.panic
           /\ listTrace.err # NoError
           /\ documentList = <<>>

\* C3: an error of Login, FetchDocumentList or SaveDocument ends the run with
\* a non-zero exit status: it is the last operation of the run.
C3_EveryErrorTerminates ==
    \A i \in DOMAIN results :
        results[i].err # NoError
            => i = Len(results) /\ pc = "exited" /\ exitCode # 0

\* The path of the k-th request of a run that got as far as issuing it.
ExpectedPath(k) ==
    IF k <= 2 THEN "/auth"
    ELSE IF k = 3 THEN "/me/e"
    ELSE documentList[k - 3].DownloadPath \o "/" \o documentList[k - 3].Name

\* C4: with {"urp":TOK} on POST /auth and 200 on the confirming GET, Login
\* succeeds, the session is TOK, and the confirming GET and every later
\* request has URL base + path + TOK.
C4_TokenOnEveryRequest ==
    (LoginReturned /\ loginTrace.postReplied /\ loginTrace.postBody.wellFormed
        /\ loginTrace.postBody.hasURP /\ loginTrace.getStatus = StatusOK)
        => /\ loginTrace.err = NoError
           /\ sessionToken = loginTrace.postBody.urp
           /\ Len(requests) >= 2
           /\ \A k \in 2..Len(requests) :
                /\ requests[k].method = "GET"
                /\ requests[k].url =
                     "https://agenda-lgo.de/api" \o ExpectedPath(k) \o loginTrace.postBody.urp

C4_Witness ==
    /\ LoginReturned /\ loginTrace.err = NoError
    /\ loginTrace.postBody.hasURP /\ loginTrace.postBody.urp = "TOK"
    /\ sessionToken = "TOK"
    /\ Len(requests) >= 5

\* C5: a POST /auth body that is not JSON, or is an object without "urp",
\* makes Login return an error without issuing the confirming GET.
C5_DecodingFailureAborts ==
    (LoginReturned /\ loginTrace.postReplied
        /\ (~loginTrace.postBody.wellFormed \/ ~loginTrace.postBody.hasURP))
        => /\ loginTrace.err # NoError
           /\ ~loginTrace.getIssued

IsAuthRequest(req) ==
    req.url \in {"https://agenda-lgo.de/api/auth",
                 "https://agenda-lgo.de/api/auth" \o sessionToken}

\* C6: the run is Login, then one FetchDocumentList, then the SaveDocument
\* calls, the k-th of them for the k-th descriptor of the list; a run that
\* returns from main has saved every descriptor exactly once; a request
\* other than to /auth is only issued after Login succeeded.
C6_WorkflowOrder ==
    /\ \A i \in DOMAIN results :
         results[i].op = (IF i = 1 THEN "Login"
                          ELSE IF i = 2 THEN "FetchDocumentList"
                          ELSE "SaveDocument")
    /\ Len(saves) = (IF Len(results) > 2 THEN Len(results) - 2 ELSE 0)
    /\ Len(saves) <= Len(documentList)
    /\ \A k \in DOMAIN saves :
         saves[k].index = k /\ saves[k].document = documentList[k]
    /\ (pc = "exited" /\ exitCode = 0) => Len(saves) = Len(documentList)
    /\ (listTrace.called \/ \E i \in DOMAIN requests : ~IsAuthRequest(requests[i]))
         => (LoginReturned /\ loginTrace.err = NoError)

C6_Witness ==
    /\ pc = "exited" /\ exitCode = 0
    /\ Len(documentList) = 2
    /\ Len(saves) = 2
    /\ saves[1].document # saves[2].document

\* C7: after an operation returned, none of the handles it acquired is open.
C7_NoHandleLeftOpen == openHandles = {}

EnglishMonthName ==
    <<"January", "February", "March", "April", "May", "June", "July",
      "August", "September", "October", "November", "December">>

\* C8: a SaveDocument call for a month in 1..12 whose GET and copy complete
\* leaves the file <outDir>/<year>-<EnglishMonthName>.pdf holding exactly the
\* response body.
C8_SavedFileIsTheBody ==
    \A k \in DOMAIN saves :
        (saves[k].document.Month \in 1..12 /\ saves[k].err = NoError)
            => LET name == outDir \o "/" \o ToString(saves[k].document.Year) \o "-"
                              \o EnglishMonthName[saves[k].document.Month] \o ".pdf"
               IN /\ saves[k].path = name
                  /\ k = Len(saves) => (name \in DOMAIN files /\ files[name] = saves[k].body)

C8_Witness ==
    /\ \E k \in DOMAIN saves :
         /\ saves[k].document.Month = 12 /\ saves[k].err = NoError
         /\ Len(saves[k].body) = MaxBody
         /\ files[saves[k].path] = saves[k].body
    /\ files[FileName(outDir, Doc(2023, 1, "", "", ""))] = StaleBytes

SameMonth(a, b) == a.Year = b.Year /\ a.Month = b.Month

\* C9: documents of one year and month all go to one file; a later one
\* overwrites an earlier one without an error being raised for it, and the
\* file holds the body of the last of them, with nothing of earlier bodies.
C9_LastDocumentWins ==
    \A i, j \in DOMAIN saves :
        (i < j /\ SameMonth(saves[i].document, saves[j].document))
            => /\ saves[i].path = saves[j].path
               /\ (saves[j].responded /\ saves[j].createOK
                      /\ saves[j].copied = Len(saves[j].body)) => saves[j].err = NoError
               /\ (saves[j].err = NoError
                      /\ \A k \in DOMAIN saves :
                            (k > j) => ~SameMonth(saves[k].document, saves[j].document))
                    => /\ saves[j].path \in DOMAIN files
                       /\ files[saves[j].path] = saves[j].body

C9_Witness ==
    /\ pc = "exited"
    /\ Len(saves) = 2
    /\ SameMonth(saves[1].document, saves[2].document)
    /\ saves[1].document.Name # saves[2].document.Name
    /\ saves[1].err = NoError /\ saves[2].err = NoError
    /\ Len(saves[1].body) > Len(saves[2].body)
    /\ files[saves[2].path] = saves[2].body

\* C10: whatever the status of the download reply, SaveDocument creates or
\* truncates the target file, writes the reply's body into it and reports no
\* error when the copy completes.
C10_StatusIsNeverInspected ==
    \A k \in DOMAIN saves :
        (~saves[k].transportErr /\ saves[k].createOK)
            => /\ saves[k].created
               /\ saves[k].copied = Len(saves[k].body) => saves[k].err = NoError
               /\ k = Len(saves)
                    => /\ saves[k].path \in DOMAIN files
                       /\ files[saves[k].path] = SubSeq(saves[k].body, 1, saves[k].copied)

C10_Witness ==
    \E k \in DOMAIN saves :
        /\ k = Len(saves)
        /\ saves[k].status = 404
        /\ saves[k].err = NoError
        /\ saves[k].path \in DOMAIN InitialFiles
        /\ files[saves[k].path] = saves[k].body
        /\ files[saves[k].path] # InitialFiles[saves[k].path]

====
